---- MODULE Spec2Model ----
(***************************************************************************)
(* ERC-4337 wallet account: fee quoting, send / transfer orchestration and *)
(* the lazily constructed Safe4337Pack of one account handle.              *)
(*                                                                         *)
(* Three classes are modelled:                                             *)
(*   "readonly" WalletAccountReadOnlyEvmErc4337                            *)
(*              (src/wallet-account-read-only-evm-erc-4337.js)             *)
(*   "owned"    WalletAccountEvmErc4337 extending the read-only class      *)
(*              (unnamed/part_003)                                         *)
(*   "legacy"   WalletAccountEvmErc4337 extending WalletAccountEvm         *)
(*              (src/wallet-account-evm-erc-4337.js)                       *)
(* together with the read-only copy toReadOnlyAccount returns and the      *)
(* account cache of WalletManagerEvmErc4337 (unnamed/part_002).            *)
(*                                                                         *)
(* JavaScript Numbers are binary floating point, rounded to nearest, ties  *)
(* to even.  binary64 carries 53 significant bits; the model carries       *)
(* MantissaBits of them and the fixed-point scale 10^18 is Wad, so that    *)
(* the values fit the integers of the model checker.  Every Number         *)
(* operation of the source rounds here exactly where it rounds there.      *)
(***************************************************************************)
EXTENDS Integers, Sequences, FiniteSets, TLC

\* ------------------------------------------------------------------------
\* Bounds
\* ------------------------------------------------------------------------

\* significant bits of a Number (53 in binary64)
MantissaBits == 9

\* fixed-point scale of the exchange rate (10 ** 18 in the source)
Wad == 10

\* largest value of one gas-limit field in the quote specification
MaxGas == 1

\* number of invocations that may be in flight on the handle at once
NumProcs == 2

\* largest account index asked of the wallet manager
MaxIndex == 1

\* the longest list of calls
MaxCalls == 2

\* the largest amount approved
MaxAmount == 2

\* ------------------------------------------------------------------------
\* Program constants
\* ------------------------------------------------------------------------

\* FEE_TOLERANCE_COEFFICIENT = 1.2 = ToleranceNum / ToleranceDen
ToleranceNum == 6

ToleranceDen == 5

\* the value of an absent option (undefined)
Undefined == -1

\* ------------------------------------------------------------------------
\* Number arithmetic
\* ------------------------------------------------------------------------

RECURSIVE Pow2(_)
Pow2(k) == IF k <= 0 THEN 1 ELSE 2 * Pow2(k - 1)

\* exact integer helpers
CeilDiv(n, d) == (n + d - 1) \div d

\* n / d rounded to an integer, ties to the even neighbour
RoundHalfEven(n, d) ==
  LET q == n \div d
      r == n % d
  IN  IF 2 * r < d THEN q
      ELSE IF 2 * r > d THEN q + 1
      ELSE IF q % 2 = 0 THEN q ELSE q + 1

\* the binary exponent e with 2^(MantissaBits-1) <= (n/d) / 2^e < 2^MantissaBits
RECURSIVE ExpUp(_, _, _)
ExpUp(n, d, e) ==
  IF n < Pow2(MantissaBits) * d * Pow2(e) THEN e ELSE ExpUp(n, d, e + 1)

RECURSIVE ExpDown(_, _, _)
ExpDown(n, d, k) ==
  IF Pow2(MantissaBits - 1) * d <= n * Pow2(k) THEN k ELSE ExpDown(n, d, k + 1)

Exponent(n, d) ==
  IF n >= Pow2(MantissaBits - 1) * d THEN ExpUp(n, d, 0) ELSE 0 - ExpDown(n, d, 0)

\* the Number nearest to the non-negative rational n / d, as a fraction
Fl(n, d) ==
  IF n <= 0 THEN [num |-> 0, den |-> 1]
  ELSE LET e == Exponent(n, d)
       IN  IF e >= 0
           THEN [num |-> RoundHalfEven(n, d * Pow2(e)) * Pow2(e), den |-> 1]
           ELSE [num |-> RoundHalfEven(n * Pow2(0 - e), d), den |-> Pow2(0 - e)]

\* Number(b) for a BigInt b
ToNumber(b) == Fl(b, 1)

\* x * y and x / y on Numbers
NumMul(x, y) == Fl(x.num * y.num, x.den * y.den)

NumDiv(x, y) == Fl(x.num * y.den, x.den * y.num)

\* Math.ceil(x), an integer
MathCeil(x) == CeilDiv(x.num, x.den)

\* the integer a whole Number denotes
IntOf(x) == x.num \div x.den

\* Number.MAX_SAFE_INTEGER = 2^53 - 1
MAX_SAFE_INTEGER == Pow2(MantissaBits) - 1

\* ------------------------------------------------------------------------
\* Pricing
\* ------------------------------------------------------------------------

\* the resource fields read back from safeOperation.userOperation
GasFields ==
  {"callGasLimit", "verificationGasLimit", "preVerificationGas",
   "paymasterVerificationGasLimit", "paymasterPostOpGasLimit"}

\* variant: the paymaster post-op gas limit is left out of the sum
GasCostInEth_NoPostOp(uo) ==
  (uo.callGasLimit + uo.verificationGasLimit + uo.preVerificationGas
     + uo.paymasterVerificationGasLimit)
    * uo.maxFeePerGas

\* (callGasLimit + ... + paymasterPostOpGasLimit) * maxFeePerGas, in BigInt
GasCostInEth(uo) ==
  (uo.callGasLimit + uo.verificationGasLimit + uo.preVerificationGas
     + uo.paymasterVerificationGasLimit + uo.paymasterPostOpGasLimit)
    * uo.maxFeePerGas

\* read-only class: Math.ceil(Number(gasCost) * exchangeRate / 10 ** 18)
GasCostInPaymasterTokenReadOnly(gasCost, exchangeRate) ==
  MathCeil(NumDiv(NumMul(ToNumber(gasCost), ToNumber(exchangeRate)),
                  ToNumber(Wad)))

\* legacy class: BigInt(gasCost) * BigInt(exchangeRate) / BigInt(10 ** 18),
\* then { fee: Number(fee) }
GasCostInPaymasterTokenLegacy(gasCost, exchangeRate) ==
  IntOf(ToNumber((gasCost * exchangeRate) \div Wad))

\* the fee quoteSendTransaction returns
QuoteFee(k, gasCost, exchangeRate) ==
  IF k = "legacy"
  THEN GasCostInPaymasterTokenLegacy(gasCost, exchangeRate)
  ELSE GasCostInPaymasterTokenReadOnly(gasCost, exchangeRate)

\* the quote of the read-only class is a BigInt, the legacy one a Number
FeeIsBigInt(k) == k # "legacy"

\* variant: the fee is divided by the coefficient
AmountToApprove_Divides(fee) ==
  MathCeil(NumDiv(ToNumber(fee), Fl(ToleranceNum, ToleranceDen)))

\* BigInt(Math.ceil(fee * FEE_TOLERANCE_COEFFICIENT)) for a Number fee
AmountToApprove(fee) ==
  MathCeil(NumMul(ToNumber(fee), Fl(ToleranceNum, ToleranceDen)))

\* variant: a quote equal to the ceiling passes
ExceedsTransferMaxFee_Strict(fee, maxFee) ==
  maxFee # Undefined /\ fee > maxFee

\* transferMaxFee !== undefined && fee >= transferMaxFee
ExceedsTransferMaxFee(fee, maxFee) ==
  maxFee # Undefined /\ fee >= maxFee

\* ------------------------------------------------------------------------
\* Inputs
\* ------------------------------------------------------------------------

Procs == 1 .. NumProcs

Kinds == {"readonly", "owned", "legacy"}

\* paymaster token of the wallet configuration, and of a config override
ConfigToken == 1

OverrideToken == 2

\* the transfer fee ceilings a configuration or an override may carry
TransferMaxFees == {Undefined, 15}

\* the config argument of an operation: absent, or an object that may or may
\* not name paymasterToken and transferMaxFee
NoConfig == [given |-> FALSE, token |-> Undefined, maxFee |-> Undefined]

Configs ==
  {NoConfig} \cup
  [given : {TRUE}, token : {Undefined, OverrideToken}, maxFee : TransferMaxFees]

\* user operations the engine may assemble
UserOp(c, v, pv, pmv, ppo, mf) ==
  [callGasLimit |-> c, verificationGasLimit |-> v, preVerificationGas |-> pv,
   paymasterVerificationGasLimit |-> pmv, paymasterPostOpGasLimit |-> ppo,
   maxFeePerGas |-> mf]

UserOps == {UserOp(1, 2, 3, 4, 5, 1), UserOp(1, 2, 3, 4, 5, 9), UserOp(1, 1, 1, 0, 0, 171)}

\* exchange rates the engine may report (scaled by Wad)
Rates == {0, Wad \div 2, Wad, 2 * Wad}

\* every combination of the six fields up to MaxGas, for the quote alone
GasGrid ==
  {UserOp(c, v, pv, pmv, ppo, mf) :
     c \in 0 .. MaxGas, v \in 0 .. MaxGas, pv \in 0 .. MaxGas,
     pmv \in 0 .. MaxGas, ppo \in 0 .. MaxGas, mf \in {1, 171}}

\* failures an engine call may raise: with and without the AA50 marker
EngineErrors == {"AA50", "EngineError"}

Hashes == {1}

\* the indexes getAccount is asked for
Indexes == 0 .. MaxIndex

\* the template `0'/0/${index}`
PathOfIndex(i) == "0'/0/" \o ToString(i)

\* variant: the default index is 1
IndexOrDefault_One(i) == IF i = Undefined THEN 1 ELSE i

\* the default parameter index = 0
IndexOrDefault(i) == IF i = Undefined THEN 0 ELSE i

\* the derivation paths asked of the wallet manager
Paths == {PathOfIndex(i) : i \in Indexes} \cup {"1'/0/0"}

\* maxFeePerGas of provider.getFeeData(): null on a chain without EIP-1559
FeeDatas == {Undefined, 1, 2}

\* addresses a keyed account may have
Addresses == {1, 2}

\* the smart-account address the engine predicts from its owners option
\* (threshold, salt nonce and contract versions are the same for every engine)
SafeAddress(owner) == owner + 10

\* variant: every engine is given the keyed account as signer
InitSigner_Always(k) == TRUE

\* whether Safe4337Pack.init is given a signer
InitSigner(k) == k # "readonly"

\* variant: the engine is given the smart-account address as its owner
InitOptions_SafeOwner(k, owner) ==
  [signer |-> InitSigner(k), owner |-> SafeAddress(owner)]

\* the options of Safe4337Pack.init that differ between handles
InitOptions(k, owner) == [signer |-> InitSigner(k), owner |-> owner]

NoEngine == [signer |-> FALSE, owner |-> Undefined]

NoData == [fn |-> "none", args |-> <<>>]

\* a call { to, value, data }; array holds the elements when an array stands
\* where a call is expected
Call(to, value, data) == [to |-> to, value |-> value, data |-> data, array |-> <<>>]

\* contract.interface.encodeFunctionData('transfer', [recipient, amount])
EncodeTransfer(recipient, amount) == [fn |-> "transfer", args |-> <<recipient, amount>>]

\* variant: the call is addressed to the recipient
getTransferTx_ToRecipient(options) ==
  Call(options.recipient, 0, EncodeTransfer(options.recipient, options.amount))

\* getTransferTx: the one call of a token transfer
getTransferTx(options) ==
  Call(options.token, 0, EncodeTransfer(options.recipient, options.amount))

\* the tx argument: one call, or an array of calls
Single(c) == [list |-> FALSE, calls |-> <<c>>]

Batch(cs) == [list |-> TRUE, calls |-> cs]

NoTx == [list |-> FALSE, calls |-> <<>>]

NoOptions == [token |-> Undefined, recipient |-> Undefined, amount |-> Undefined]

\* [tx].flat()
Flat(tx) == tx.calls

\* [tx]
Wrap(tx) ==
  IF tx.list
  THEN <<[to |-> Undefined, value |-> Undefined, data |-> NoData, array |-> tx.calls]>>
  ELSE tx.calls

\* txs.map(tx => ({ from: address, ...tx }))
WithFrom(address, txs) ==
  [i \in 1 .. Len(txs) |-> [from |-> address, call |-> txs[i]]]

\* the calls of an assembled operation, in order
CallsOf(transactions) ==
  [i \in 1 .. Len(transactions) |-> transactions[i].call]

\* the calls a caller sends
Calls == {Call(21, 1, NoData), Call(22, 0, NoData)}

\* the tx arguments: a call, or a list of up to MaxCalls calls
Txs ==
  {Single(c) : c \in Calls}
    \cup UNION {{Batch(cs) : cs \in [1 .. n -> Calls]} : n \in 1 .. MaxCalls}

\* the options of a transfer
TransferOptions ==
  {[token |-> t, recipient |-> r, amount |-> m] : t \in {1, 3}, r \in {4, 5}, m \in {0, 7}}

\* what a public operation is called with besides the config override
NoArg == [tx |-> NoTx, options |-> NoOptions, hash |-> Undefined]

Args ==
  {NoArg} \cup {[tx |-> t, options |-> NoOptions, hash |-> Undefined] : t \in Txs}
          \cup {[tx |-> NoTx, options |-> o, hash |-> Undefined] : o \in TransferOptions}

\* one argument of each kind
OneArgEach ==
  {NoArg, [tx |-> Single(Call(21, 1, NoData)), options |-> NoOptions, hash |-> Undefined],
   [tx |-> NoTx, options |-> [token |-> 3, recipient |-> 4, amount |-> 7],
    hash |-> Undefined]}

\* the value null
Null == -2

\* user operation hashes a receipt is asked for, and the hashes of the
\* transactions that settle them
OpHashes == {1, 2}

TxHashes == {101, 102}

\* the transactionHash the bundler reports: none while the operation is not
\* included
Reports == {Undefined, Null} \cup TxHashes

\* the chain's receipt of transaction th; Receipt(Null) stands for null
Receipt(th) == [transactionHash |-> th]

\* nothing returned yet
NoReceipt == Receipt(Undefined)

\* the arguments of getTransactionReceipt
HashArgs == {[tx |-> NoTx, options |-> NoOptions, hash |-> h] : h \in OpHashes}

\* variant: only an absent transactionHash counts as none
NoTransactionHash_UndefinedOnly(th) == th = Undefined

\* !transactionHash
NoTransactionHash(th) == th \in {Undefined, Null}

\* variant: the receipt is looked up by the hash the caller gave
ReceiptKey_OperationHash(hash, transactionHash) == hash

\* the hash evmReadOnlyAccount.getTransactionReceipt is called with
ReceiptKey(hash, transactionHash) == transactionHash

\* the stablecoin whose allowance must be reset before it is set anew
FlaggedToken == 31

\* the tokens approvals are asked for, and the spenders
ApprovedTokens == {FlaggedToken, 32}

Spenders == {41, 42}

Amounts == 0 .. MaxAmount

\* the call of an approval: approve(spender, amount) on the token
ApproveCall(token, spender, amount) ==
  Call(token, 0, [fn |-> "approve", args |-> <<spender, amount>>])

\* variant: only an allowance that covers the new amount is in the way
MustResetFirst_WhenCovered(token, amount, current) ==
  token = FlaggedToken /\ amount > 0 /\ current >= amount

\* a nonzero allowance of the flagged stablecoin is asked for while the
\* current allowance of the spender is nonzero
MustResetFirst(token, amount, current) ==
  token = FlaggedToken /\ amount > 0 /\ current > 0

NoApproval ==
  [token |-> Undefined, spender |-> Undefined, amount |-> Undefined,
   seen |-> Undefined, err |-> "none", calls |-> <<>>, pending |-> FALSE]

\* Date.now() in milliseconds
Times == {119999, 120000}

\* variant: the two minutes are added in milliseconds
ValidUntil_Millis(now) == now \div 1000 + 2 * 60 * 1000

\* Math.floor(Date.now() / 1_000) + 2 * 60
ValidUntil(now) == now \div 1000 + 2 * 60

PipelineOps == {"quoteSendTransaction", "quoteTransfer", "sendTransaction", "transfer"}

QuoteOps == {"quoteSendTransaction", "quoteTransfer"}

SendOps == {"sendTransaction", "transfer"}

\* the public operations of each class
OpsOf(k) ==
  CASE k = "readonly" -> {"getAddress", "getBalance", "getTransactionReceipt"} \cup QuoteOps
    [] k = "owned"    -> {"getAddress", "getBalance", "getTransactionReceipt"} \cup PipelineOps
    [] OTHER          -> {"getAddress"} \cup PipelineOps

\* ------------------------------------------------------------------------
\* State
\* ------------------------------------------------------------------------

VARIABLES
  kind,          \* class of the account handle
  provider,      \* config.provider is set
  transferMaxFee,\* config.transferMaxFee
  safe4337Pack,  \* this._safe4337Pack: 0 is undefined, else the instance
  initCount,     \* engines constructed by Safe4337Pack.init so far
  inv,           \* the invocations in flight, one record per slot
  ownerAddress,  \* address of the keyed account (this._ownerAccountAddress)
  engines,       \* the options each constructed engine was given, by instance
  copy,          \* the handle toReadOnlyAccount returned last
  accounts,      \* this._accounts of the wallet manager: path -> instance, 0 if none
  created,       \* accounts constructed by the wallet manager so far
  builtBy,       \* the manager operation that constructed the account of a path
  heldConfig,    \* this._config of the account of a path: the object it holds, 0 if none
  last,          \* the last call on the wallet manager and what it returned
  allowance,     \* allowance(account, spender) of each token on the chain
  approval       \* the last approval requested and what came of it

vars == <<kind, provider, transferMaxFee, safe4337Pack, initCount, inv,
          ownerAddress, engines, copy, accounts, created, builtBy, heldConfig, last,
          allowance, approval>>

\* what the operations of the account leave alone besides its own fields
others ==
  <<ownerAddress, copy, accounts, created, builtBy, heldConfig, last, allowance, approval>>

NoOperation ==
  [token |-> Undefined, approve |-> Undefined, transactions |-> <<>>,
   validUntil |-> Undefined, by |-> "none"]

NoResult == [hash |-> Undefined, fee |-> Undefined]

NoUserOp == UserOp(0, 0, 0, 0, 0, 0)

Idle ==
  [status |-> "idle", op |-> "none", pc |-> "none", ret |-> "none",
   cfg |-> NoConfig, pack |-> 0, uo |-> NoUserOp, gasCost |-> 0,
   rate |-> Undefined, fee |-> Undefined, quoted |-> FALSE, quoteOp |-> NoOperation,
   sendOp |-> NoOperation, signed |-> FALSE, submitted |-> FALSE,
   calls |-> {}, err |-> "none", result |-> NoResult,
   outer |-> 0, on |-> {}, raised |-> "none", at |-> "none",
   address |-> Undefined,
   reported |-> Undefined, looked |-> {}, receipt |-> NoReceipt,
   arg |-> NoArg, now |-> Undefined, signedOp |-> NoOperation,
   submittedOp |-> NoOperation, submits |-> 0]

\* no read-only copy has been made
NoCopy ==
  [made |-> FALSE, owner |-> Undefined, engine |-> NoEngine,
   address |-> Undefined, early |-> FALSE]

\* no call has been made on the wallet manager
NoCall ==
  [op |-> "none", path |-> "none", index |-> Undefined, account |-> 0,
   hit |-> FALSE, err |-> "none", queried |-> FALSE, maxFeePerGas |-> Undefined]

Init ==
  /\ kind \in Kinds
  /\ provider \in BOOLEAN
  /\ transferMaxFee \in TransferMaxFees
  /\ safe4337Pack = 0
  /\ initCount = 0
  /\ inv = [p \in Procs |-> Idle]
  /\ ownerAddress \in Addresses
  /\ engines = <<>>
  /\ copy = NoCopy
  /\ accounts = [q \in Paths |-> 0]
  /\ created = 0
  /\ builtBy = [q \in Paths |-> "none"]
  /\ heldConfig = [q \in Paths |-> 0]
  /\ last = NoCall
  /\ allowance = [t \in ApprovedTokens, sp \in Spenders |-> 0]
  /\ approval = NoApproval

\* ------------------------------------------------------------------------
\* Control flow of one invocation
\* ------------------------------------------------------------------------

\* the places where an invocation calls _getSafe4337Pack
PackSites ==
  {"q_pack", "q_addr_pack", "q_rate_pack", "s_pack", "s_addr_pack", "a_pack",
   "r_pack", "r_addr_pack"}

\* the await that follows the one at label l
NextPc(k, l) ==
  CASE l = "q_pack"      -> IF k = "legacy" THEN "q_create" ELSE "q_addr_pack"
    [] l = "q_addr_pack" -> "q_addr"
    [] l = "q_addr"      -> "q_create"
    [] l = "q_create"    -> IF k = "legacy" THEN "q_rate_pack" ELSE "q_rate"
    [] l = "q_rate_pack" -> "q_rate"
    [] l = "q_rate"      -> "q_done"
    [] l = "s_pack"      -> IF k = "legacy" THEN "s_create" ELSE "s_addr_pack"
    [] l = "s_addr_pack" -> "s_addr"
    [] l = "s_addr"      -> "s_create"
    [] l = "s_create"    -> "s_sign"
    [] l = "s_sign"      -> "s_exec"
    [] l = "a_pack"      -> "a_addr"
    [] l = "r_pack"      -> "r_addr_pack"
    [] l = "r_addr_pack" -> "r_addr"
    [] l = "r_addr"      -> "r_lookup"
    [] OTHER             -> "none"

\* the engine capability used by the call at label l
Capability(l) ==
  CASE l = "init"                            -> "init"
    [] l \in {"q_addr", "s_addr", "a_addr", "r_addr"} -> "getAddress"
    [] l = "r_lookup"                          -> "getUserOperationByHash"
    [] l \in {"q_create", "s_create"}        -> "createTransaction"
    [] l = "q_rate"                          -> "getTokenExchangeRate"
    [] l = "s_sign"                          -> "signSafeOperation"
    [] l = "s_exec"                          -> "executeTransaction"
    [] OTHER                                 -> "none"

\* the calls made inside the try block of the quote routine
QuoteTry(k) == IF k = "legacy" THEN {"q_create"} ELSE {"q_create", "q_rate"}

\* the calls made inside the try block of the send routine
SendTry == {"s_create", "s_sign", "s_exec"}

\* variant: the send routine reuses the message of the quote routine
Surface_SendAsSimulation(k, l, e) ==
  IF e = "AA50" /\ l \in QuoteTry(k) \cup SendTry THEN "SimulationFailed"
  ELSE e

\* variant: the catch blocks rethrow their own error whatever was caught
Surface_WrapsAll(k, l, e) ==
  IF l \in QuoteTry(k) THEN "SimulationFailed"
  ELSE IF l \in SendTry THEN "NotEnoughFunds"
  ELSE e

\* the failure the caller sees when the call at label l raises e
Surface(k, l, e) ==
  IF e = "AA50" /\ l \in QuoteTry(k) THEN "SimulationFailed"
  ELSE IF e = "AA50" /\ l \in SendTry THEN "NotEnoughFunds"
  ELSE e

\* const { paymasterToken } = config ?? this._config
QuoteToken(c) == IF c.given THEN c.token ELSE ConfigToken

\* variant: the send phase takes the configured token whatever the override
SendToken_Configured(k, c) == ConfigToken

\* the paymaster token of the send phase
SendToken(k, c) ==
  IF k = "legacy"
  THEN IF c.given /\ c.token # Undefined THEN c.token ELSE ConfigToken
  ELSE QuoteToken(c)

\* const { transferMaxFee } = config ?? this._config
MaxFeeOf(c) == IF c.given THEN c.maxFee ELSE transferMaxFee

\* variant: sendTransaction and transfer go straight to the send routine
FirstPc_SendSkipsQuote(o) ==
  IF o \in SendOps THEN "s_pack"
  ELSE IF o \in PipelineOps THEN "q_pack"
  ELSE IF o = "getTransactionReceipt" THEN "r_pack" ELSE "a_pack"

\* where an operation begins: the pipeline operations quote first
FirstPc(o) ==
  IF o \in PipelineOps THEN "q_pack"
  ELSE IF o = "getTransactionReceipt" THEN "r_pack" ELSE "a_pack"

\* variant: quoteTransfer carries on into the send routine
ReturnsAfterQuote_NotTransfer(o) == o = "quoteSendTransaction"

\* the operations that end when the quote has been computed
ReturnsAfterQuote(o) == o \in QuoteOps

Fail(p, e) ==
  inv' = [inv EXCEPT ![p].status = "error", ![p].err = e, ![p].pc = "none"]

Called(p, l) == inv[p].calls \cup {l}

\* the sites whose result a routine keeps in its local safe4337Pack
RoutineSites == {"q_pack", "q_rate_pack", "s_pack", "r_pack"}

\* the engine on which the call at label l is made: getAddress calls it on
\* the engine its own _getSafe4337Pack returned, the routines on their local
EngineAt(p, l) ==
  IF l \in {"q_addr", "s_addr", "a_addr", "r_addr"} THEN inv[p].pack ELSE inv[p].outer

\* the engine calls of the invocation, each with the engine it went to
On(p, l) == inv[p].on \cup {<<l, EngineAt(p, l)>>}

\* _getSafe4337Pack returns engine e at the given site
Returned(p, site, e) ==
  [inv[p] EXCEPT !.pack = e,
                 !.outer = IF site \in RoutineSites THEN e ELSE @,
                 !.pc = NextPc(kind, site),
                 !.ret = "none"]

\* ------------------------------------------------------------------------
\* Operations
\* ------------------------------------------------------------------------

\* the arguments operation o takes: a tx, the options of a transfer, or none
ArgsOf(o) ==
  CASE o \in {"sendTransaction", "quoteSendTransaction"} ->
         {a \in Args : a.tx # NoTx}
    [] o \in {"transfer", "quoteTransfer"} ->
         {a \in Args : a.options # NoOptions}
    [] o = "getTransactionReceipt" -> HashArgs
    [] OTHER -> {NoArg}

\* the tx the operation prices and sends: its argument, or the call of the
\* transfer (the newer classes take it from _getTransferTransaction of the
\* keyed-account class, taken to build the call getTransferTx builds)
TxOf(o, a) ==
  IF o \in {"transfer", "quoteTransfer"}
  THEN Single(getTransferTx(a.options))
  ELSE a.tx

\* the transactions option of createTransaction in the quote routine
QuoteTransactions(k, o, a, address) ==
  IF k = "legacy"
  THEN WithFrom(Undefined, Wrap(TxOf(o, a)))
  ELSE WithFrom(address, Flat(TxOf(o, a)))

\* the transactions option of createTransaction in the send routine
SendTransactions(k, o, a, address) ==
  IF k = "legacy"
  THEN WithFrom(Undefined, Wrap(TxOf(o, a)))
  ELSE IF o = "sendTransaction"
  THEN WithFrom(address, Flat(TxOf(o, a)))
  ELSE WithFrom(address, Wrap(TxOf(o, a)))

\* variant: the operation of the quote is the one signed
OperationToSign_Quote(quoteOp, sendOp) == quoteOp

\* signSafeOperation(safeOperation): the operation the send routine assembled
OperationToSign(quoteOp, sendOp) == sendOp

\* variant: a rejected call of the send routine is made again
AfterFailure_Retry(l) == IF l \in {"s_create", "s_sign", "s_exec"} THEN l ELSE "none"

\* catch (err) { ... throw }: no step of the routine follows a rejected call
AfterFailure(l) == "none"

\* variant: a send waits until no other invocation is in flight
Waits_Serialized(p) == \E q \in Procs \ {p} : inv[q].status = "running"

\* sendTransaction and transfer take no lock and join no queue before their
\* first await: an invocation never waits for another one
Waits(p) == FALSE

\* a public operation is invoked
Start(p, o, c, a) ==
  /\ inv[p].status # "running"
  /\ o \in OpsOf(kind)
  /\ o \in SendOps => ~Waits(p)
  /\ o \notin PipelineOps => c = NoConfig
  /\ a \in ArgsOf(o)
  /\ LET fresh == [Idle EXCEPT !.op = o, !.cfg = c, !.arg = a] IN
       IF o \notin PipelineOps
       THEN inv' = [inv EXCEPT ![p] = [fresh EXCEPT !.status = "running", !.pc = FirstPc(o)]]
       ELSE IF kind = "legacy" /\ ~provider
       THEN inv' = [inv EXCEPT ![p] = [fresh EXCEPT !.status = "error", !.err = "NoProvider"]]
       ELSE IF kind # "legacy" /\ QuoteToken(c) = Undefined
       THEN inv' = [inv EXCEPT ![p] = [fresh EXCEPT !.status = "error", !.err = "TypeError"]]
       ELSE inv' = [inv EXCEPT ![p] = [fresh EXCEPT !.status = "running", !.pc = FirstPc(o)]]
  /\ UNCHANGED <<kind, provider, transferMaxFee, safe4337Pack, initCount>>
  /\ UNCHANGED <<engines, others>>

\* _getSafe4337Pack: the cached engine, or the start of a construction
GetSafe4337Pack(p) ==
  /\ inv[p].status = "running"
  /\ inv[p].pc \in PackSites
  /\ IF safe4337Pack # 0
     THEN inv' = [inv EXCEPT ![p] = Returned(p, inv[p].pc, safe4337Pack)]
     ELSE inv' = [inv EXCEPT ![p].pc = "init", ![p].ret = inv[p].pc,
                             ![p].calls = Called(p, "init")]
  /\ UNCHANGED <<kind, provider, transferMaxFee, safe4337Pack, initCount>>
  /\ UNCHANGED <<engines, others>>

\* Safe4337Pack.init resolves: the new engine is stored and returned
InitDone(p) ==
  /\ inv[p].status = "running"
  /\ inv[p].pc = "init"
  /\ initCount' = initCount + 1
  /\ safe4337Pack' = initCount + 1
  /\ inv' = [inv EXCEPT ![p] = Returned(p, inv[p].ret, initCount + 1)]
  /\ engines' = Append(engines, InitOptions(kind, ownerAddress))
  /\ UNCHANGED <<kind, provider, transferMaxFee>>
  /\ UNCHANGED others

\* Safe4337Pack.init rejects
InitFail(p, e) ==
  /\ inv[p].status = "running"
  /\ inv[p].pc = "init"
  /\ inv' = [inv EXCEPT ![p].status = "error", ![p].pc = "none",
                        ![p].err = Surface(kind, "init", e),
                        ![p].raised = e, ![p].at = "init"]
  /\ UNCHANGED <<kind, provider, transferMaxFee, safe4337Pack, initCount>>
  /\ UNCHANGED <<engines, others>>

\* the address the engine fetched by getAddress reports
AddressOf(p) == SafeAddress(engines[inv[p].pack].owner)

\* safe4337pack.protocolKit.getAddress()
ProtocolKitGetAddress(p) ==
  /\ inv[p].status = "running"
  /\ inv[p].pc \in {"q_addr", "s_addr", "a_addr", "r_addr"}
  /\ IF inv[p].pc = "a_addr"
     THEN IF inv[p].op = "getBalance"
          THEN inv' = [inv EXCEPT ![p].pc = "b_balance",
                                  ![p].address = AddressOf(p),
                                  ![p].calls = Called(p, "a_addr"),
                                  ![p].on = On(p, "a_addr")]
          ELSE inv' = [inv EXCEPT ![p].status = "ok", ![p].pc = "none",
                                  ![p].address = AddressOf(p),
                                  ![p].calls = Called(p, "a_addr"),
                                  ![p].on = On(p, "a_addr")]
     ELSE inv' = [inv EXCEPT ![p].pc = NextPc(kind, inv[p].pc),
                             ![p].address = AddressOf(p),
                             ![p].calls = Called(p, inv[p].pc),
                             ![p].on = On(p, inv[p].pc)]
  /\ UNCHANGED <<kind, provider, transferMaxFee, safe4337Pack, initCount>>
  /\ UNCHANGED <<engines, others>>

\* evmReadOnlyAccount.getBalance() on the chain facade
GetBalance(p) ==
  /\ inv[p].status = "running"
  /\ inv[p].pc = "b_balance"
  /\ inv' = [inv EXCEPT ![p].status = "ok", ![p].pc = "none"]
  /\ UNCHANGED <<kind, provider, transferMaxFee, safe4337Pack, initCount>>
  /\ UNCHANGED <<engines, others>>

\* the quote routine assembles the operation and reads its gas fields back
CreateQuoteOperation(p, u) ==
  /\ inv[p].status = "running"
  /\ inv[p].pc = "q_create"
  /\ IF QuoteToken(inv[p].cfg) = Undefined
     THEN Fail(p, "TypeError")
     ELSE inv' = [inv EXCEPT
            ![p].quoteOp =
              [token |-> QuoteToken(inv[p].cfg), approve |-> MAX_SAFE_INTEGER,
               transactions |->
                 QuoteTransactions(kind, inv[p].op, inv[p].arg, inv[p].address),
               validUntil |-> Undefined, by |-> "quote"],
            ![p].uo = u,
            ![p].gasCost = GasCostInEth(u),
            ![p].calls = Called(p, "q_create"),
            ![p].on = On(p, "q_create"),
            ![p].pc = NextPc(kind, "q_create")]
  /\ UNCHANGED <<kind, provider, transferMaxFee, safe4337Pack, initCount>>
  /\ UNCHANGED <<engines, others>>

\* safe4337Pack.getTokenExchangeRate resolves and the quote is computed
GetTokenExchangeRate(p, r) ==
  /\ inv[p].status = "running"
  /\ inv[p].pc = "q_rate"
  /\ inv' = [inv EXCEPT
       ![p].rate = r,
       ![p].fee = QuoteFee(kind, inv[p].gasCost, r),
       ![p].quoted = TRUE,
       ![p].calls = Called(p, "q_rate"),
       ![p].on = On(p, "q_rate"),
       ![p].pc = NextPc(kind, "q_rate")]
  /\ UNCHANGED <<kind, provider, transferMaxFee, safe4337Pack, initCount>>
  /\ UNCHANGED <<engines, others>>

\* quoteSendTransaction returns { fee } to its caller, which goes on
QuoteReturn(p) ==
  /\ inv[p].status = "running"
  /\ inv[p].pc = "q_done"
  /\ IF ReturnsAfterQuote(inv[p].op)
     THEN inv' = [inv EXCEPT ![p].status = "ok", ![p].pc = "none",
                             ![p].result = [hash |-> Undefined, fee |-> inv[p].fee]]
     ELSE IF inv[p].op = "transfer"
             /\ ExceedsTransferMaxFee(inv[p].fee, MaxFeeOf(inv[p].cfg))
     THEN Fail(p, "ExceededMaxFee")
     ELSE IF FeeIsBigInt(kind)
     THEN Fail(p, "TypeError")
     ELSE inv' = [inv EXCEPT ![p].pc = "s_pack"]
  /\ UNCHANGED <<kind, provider, transferMaxFee, safe4337Pack, initCount>>
  /\ UNCHANGED <<engines, others>>

\* the send routine assembles the operation to submit
CreateSendOperation(p, t) ==
  /\ inv[p].status = "running"
  /\ inv[p].pc = "s_create"
  /\ inv' = [inv EXCEPT
       ![p].sendOp =
         [token |-> SendToken(kind, inv[p].cfg),
          approve |-> AmountToApprove(inv[p].fee),
          transactions |->
            SendTransactions(kind, inv[p].op, inv[p].arg, inv[p].address),
          validUntil |-> ValidUntil(t), by |-> "send"],
       ![p].now = t,
       ![p].calls = Called(p, "s_create"),
       ![p].on = On(p, "s_create"),
       ![p].pc = NextPc(kind, "s_create")]
  /\ UNCHANGED <<kind, provider, transferMaxFee, safe4337Pack, initCount>>
  /\ UNCHANGED <<engines, others>>

\* safe4337Pack.signSafeOperation(safeOperation)
SignSafeOperation(p) ==
  /\ inv[p].status = "running"
  /\ inv[p].pc = "s_sign"
  /\ inv' = [inv EXCEPT ![p].signed = TRUE,
                        ![p].signedOp = OperationToSign(inv[p].quoteOp, inv[p].sendOp),
                        ![p].calls = Called(p, "s_sign"),
                        ![p].on = On(p, "s_sign"),
                        ![p].pc = NextPc(kind, "s_sign")]
  /\ UNCHANGED <<kind, provider, transferMaxFee, safe4337Pack, initCount>>
  /\ UNCHANGED <<engines, others>>

\* variant: the approved amount is reported as the fee
SendResult_ReportsApproval(h, fee, approve) == [hash |-> h, fee |-> approve]

\* what sendTransaction and transfer return: { hash, fee }
SendResult(h, fee, approve) == [hash |-> h, fee |-> fee]

\* safe4337Pack.executeTransaction resolves with the operation hash
ExecuteTransaction(p, h) ==
  /\ inv[p].status = "running"
  /\ inv[p].pc = "s_exec"
  /\ inv' = [inv EXCEPT ![p].submitted = TRUE,
                        ![p].submittedOp = inv[p].signedOp,
                        ![p].submits = inv[p].submits + 1,
                        ![p].calls = Called(p, "s_exec"),
                        ![p].on = On(p, "s_exec"),
                        ![p].status = "ok", ![p].pc = "none",
                        ![p].result = SendResult(h, inv[p].fee, inv[p].sendOp.approve)]
  /\ UNCHANGED <<kind, provider, transferMaxFee, safe4337Pack, initCount>>
  /\ UNCHANGED <<engines, others>>

\* safe4337Pack.getUserOperationByHash(hash) resolves, the bundler reporting
\* transactionHash th; without one the operation returns null
GetUserOperationByHash(p, th) ==
  /\ inv[p].status = "running"
  /\ inv[p].pc = "r_lookup"
  /\ inv' = [inv EXCEPT
       ![p].reported = th,
       ![p].calls = Called(p, "r_lookup"),
       ![p].on = On(p, "r_lookup"),
       ![p].status = IF NoTransactionHash(th) THEN "ok" ELSE "running",
       ![p].receipt = IF NoTransactionHash(th) THEN Receipt(Null) ELSE @,
       ![p].pc = IF NoTransactionHash(th) THEN "none" ELSE "r_receipt"]
  /\ UNCHANGED <<kind, provider, transferMaxFee, safe4337Pack, initCount>>
  /\ UNCHANGED <<engines, others>>

\* evmReadOnlyAccount.getTransactionReceipt on the chain facade: the node
\* has the receipt of the transaction asked for, or answers null
ChainGetTransactionReceipt(p, found) ==
  /\ inv[p].status = "running"
  /\ inv[p].pc = "r_receipt"
  /\ LET key == ReceiptKey(inv[p].arg.hash, inv[p].reported) IN
       inv' = [inv EXCEPT
         ![p].looked = @ \cup {key},
         ![p].receipt = IF found THEN Receipt(key) ELSE Receipt(Null),
         ![p].status = "ok",
         ![p].pc = "none"]
  /\ UNCHANGED <<kind, provider, transferMaxFee, safe4337Pack, initCount>>
  /\ UNCHANGED <<engines, others>>

\* the labels at which an engine call is in flight
EngineCalls ==
  {"q_addr", "s_addr", "a_addr", "q_create", "q_rate", "s_create", "s_sign", "s_exec",
   "r_addr", "r_lookup"}

\* an engine call rejects
EngineFails(p, e) ==
  /\ inv[p].status = "running"
  /\ inv[p].pc \in EngineCalls
  /\ inv[p].pc = "q_create" => QuoteToken(inv[p].cfg) # Undefined
  /\ inv' = [inv EXCEPT
       ![p].status = IF AfterFailure(inv[p].pc) = "none" THEN "error" ELSE "running",
       ![p].pc = AfterFailure(inv[p].pc),
       ![p].err = Surface(kind, inv[p].pc, e),
       ![p].raised = e, ![p].at = inv[p].pc,
       ![p].submits = inv[p].submits + (IF inv[p].pc = "s_exec" THEN 1 ELSE 0),
       ![p].calls = Called(p, inv[p].pc),
       ![p].on = On(p, inv[p].pc)]
  /\ UNCHANGED <<kind, provider, transferMaxFee, safe4337Pack, initCount>>
  /\ UNCHANGED <<engines, others>>

\* variant: the copy is bound to the smart-account address
CopyOwner_SafeAddress(owner) == SafeAddress(owner)

\* the address toReadOnlyAccount hands to the read-only constructor:
\* await this._ownerAccount.getAddress()
CopyOwner(owner) == owner

\* toReadOnlyAccount: a new read-only handle with the same configuration
ToReadOnlyAccount ==
  /\ kind = "owned"
  /\ copy' = [NoCopy EXCEPT !.made = TRUE,
                            !.owner = CopyOwner(ownerAddress),
                            !.early = (safe4337Pack # 0)]
  /\ UNCHANGED <<kind, provider, transferMaxFee, safe4337Pack, initCount, inv>>
  /\ UNCHANGED <<ownerAddress, engines, accounts, created, builtBy, heldConfig, last>>
  /\ UNCHANGED <<allowance, approval>>

\* getAddress on the read-only copy: its own engine, built on first use
CopyGetAddress ==
  /\ copy.made
  /\ LET e == IF copy.engine = NoEngine
               THEN InitOptions("readonly", copy.owner)
               ELSE copy.engine
     IN  copy' = [copy EXCEPT !.engine = e, !.address = SafeAddress(e.owner)]
  /\ UNCHANGED <<kind, provider, transferMaxFee, safe4337Pack, initCount, inv>>
  /\ UNCHANGED <<ownerAddress, engines, accounts, created, builtBy, heldConfig, last>>
  /\ UNCHANGED <<allowance, approval>>

\* ------------------------------------------------------------------------
\* Wallet manager
\* ------------------------------------------------------------------------

\* this._config of the wallet manager: the object its constructor was given
ManagerConfig == 1

\* variant: a new account is given a copy of the configuration
AccountConfig_Copy(config) == config + 1

\* the object a new account stores as its this._config when constructed with
\* (this.seed, path, this._config)
AccountConfig(config) == config

\* variant: every path is given the first account constructed
NewAccount_First(n) == 1

\* new WalletAccountEvmErc4337(...): the instance constructed after n others
NewAccount(n) == n + 1

\* variant: the cache is never consulted
Cached_Never(accs, path) == FALSE

\* !this._accounts[path] is false
Cached(accs, path) == accs[path] # 0

\* getAccountByPath as called by operation o: the cached account of the
\* path, or a new one that is stored under it
Lookup(o, i, path) ==
  /\ IF Cached(accounts, path)
     THEN UNCHANGED <<accounts, created, builtBy, heldConfig>>
     ELSE /\ created' = created + 1
          /\ accounts' = [accounts EXCEPT ![path] = NewAccount(created)]
          /\ builtBy' = [builtBy EXCEPT ![path] = o]
          /\ heldConfig' = [heldConfig EXCEPT ![path] = AccountConfig(ManagerConfig)]
  /\ last' = [NoCall EXCEPT !.op = o, !.path = path, !.index = i,
                            !.account = accounts'[path],
                            !.hit = Cached(accounts, path)]
  /\ UNCHANGED <<kind, provider, transferMaxFee, safe4337Pack, initCount, inv>>
  /\ UNCHANGED <<ownerAddress, engines, copy, allowance, approval>>

GetAccountByPath(path) == Lookup("getAccountByPath", Undefined, path)

\* getAccount(index = 0)
GetAccount(i) == Lookup("getAccount", i, PathOfIndex(IndexOrDefault(i)))

\* variant: the provider is not tested
HasProvider_Always(pr) == TRUE

\* this._provider is set
HasProvider(pr) == pr

\* getFeeRates, the provider reporting maxFeePerGas = m
GetFeeRates(m) ==
  /\ IF ~HasProvider(provider)
     THEN last' = [NoCall EXCEPT !.op = "getFeeRates", !.err = "NoProvider"]
     ELSE last' = [NoCall EXCEPT !.op = "getFeeRates", !.queried = TRUE,
                                 !.maxFeePerGas = m,
                                 !.err = IF m = Undefined THEN "TypeError" ELSE "none"]
  /\ UNCHANGED <<kind, provider, transferMaxFee, safe4337Pack, initCount, inv>>
  /\ UNCHANGED <<ownerAddress, engines, copy, accounts, created, builtBy, heldConfig>>
  /\ UNCHANGED <<allowance, approval>>

\* ------------------------------------------------------------------------
\* Approvals
\* ------------------------------------------------------------------------

\* approve({ token, spender, amount }): the current allowance is read, the
\* request is refused if the allowance must be reset first, and otherwise the
\* one approval call is handed on to be sent
Approve(token, spender, amount) ==
  /\ kind = "owned"
  /\ LET current == allowance[token, spender] IN
       IF MustResetFirst(token, amount, current)
       THEN approval' = [NoApproval EXCEPT !.token = token, !.spender = spender,
                                           !.amount = amount, !.seen = current,
                                           !.err = "AllowanceReset"]
       ELSE approval' = [NoApproval EXCEPT !.token = token, !.spender = spender,
                                           !.amount = amount, !.seen = current,
                                           !.calls = <<ApproveCall(token, spender, amount)>>,
                                           !.pending = TRUE]
  /\ UNCHANGED <<kind, provider, transferMaxFee, safe4337Pack, initCount, inv>>
  /\ UNCHANGED <<ownerAddress, engines, copy, accounts, created, builtBy, heldConfig, last>>
  /\ UNCHANGED allowance

\* the approval call handed on last is included on the chain
ApprovalIncluded ==
  /\ approval.pending
  /\ allowance' = [allowance EXCEPT ![approval.token, approval.spender] = approval.amount]
  /\ approval' = [approval EXCEPT !.pending = FALSE]
  /\ UNCHANGED <<kind, provider, transferMaxFee, safe4337Pack, initCount, inv>>
  /\ UNCHANGED <<ownerAddress, engines, copy, accounts, created, builtBy, heldConfig, last>>

\* a spender draws one unit of its allowance
SpenderSpends(token, spender) ==
  /\ allowance[token, spender] > 0
  /\ allowance' = [allowance EXCEPT ![token, spender] = @ - 1]
  /\ UNCHANGED <<kind, provider, transferMaxFee, safe4337Pack, initCount, inv>>
  /\ UNCHANGED <<ownerAddress, engines, copy, accounts, created, builtBy, heldConfig, last>>
  /\ UNCHANGED approval

\* one step of the invocation in slot p, its inputs drawn from the given sets
Step(p, Os, Cs, Us, Rs, Es, As, Ns) ==
  \/ \E o \in Os, c \in Cs, a \in As : Start(p, o, c, a)
  \/ GetSafe4337Pack(p)
  \/ InitDone(p)
  \/ \E e \in Es : InitFail(p, e)
  \/ ProtocolKitGetAddress(p)
  \/ GetBalance(p)
  \/ \E u \in Us : CreateQuoteOperation(p, u)
  \/ \E r \in Rs : GetTokenExchangeRate(p, r)
  \/ QuoteReturn(p)
  \/ \E t \in Ns : CreateSendOperation(p, t)
  \/ SignSafeOperation(p)
  \/ \E h \in Hashes : ExecuteTransaction(p, h)
  \/ \E e \in Es : EngineFails(p, e)

AllOps == {"getAddress", "getBalance"} \cup PipelineOps

\* operations awaited one after the other on the handle, and its downgrade
Next ==
  \/ Step(1, AllOps, Configs, UserOps, Rates, EngineErrors, OneArgEach, {120000})
  \/ ToReadOnlyAccount
  \/ CopyGetAddress

Spec == Init /\ [][Next]_vars

\* operations whose awaits interleave on the handle
NextConc ==
  \E p \in Procs :
    Step(p, AllOps, {NoConfig}, {UserOp(1, 2, 3, 4, 5, 1)}, {Wad}, {"EngineError"},
         OneArgEach, {120000})

InitConc == Init /\ provider /\ transferMaxFee = Undefined /\ ownerAddress = 1

SpecConc == InitConc /\ [][NextConc]_vars

\* the quote operations alone, over every combination of the gas fields
NextQuote ==
  \/ \E o \in QuoteOps, a \in OneArgEach : Start(1, o, NoConfig, a)
  \/ GetSafe4337Pack(1)
  \/ InitDone(1)
  \/ ProtocolKitGetAddress(1)
  \/ \E u \in GasGrid : CreateQuoteOperation(1, u)
  \/ \E r \in Rates : GetTokenExchangeRate(1, r)
  \/ QuoteReturn(1)

SpecQuote == InitConc /\ [][NextQuote]_vars

\* receipts asked of one handle, one after the other
NextReceipt ==
  \/ \E o \in {"getTransactionReceipt", "getAddress"}, a \in HashArgs \cup {NoArg} :
       Start(1, o, NoConfig, a)
  \/ GetSafe4337Pack(1)
  \/ InitDone(1)
  \/ \E e \in EngineErrors : InitFail(1, e)
  \/ ProtocolKitGetAddress(1)
  \/ \E th \in Reports : GetUserOperationByHash(1, th)
  \/ \E found \in BOOLEAN : ChainGetTransactionReceipt(1, found)
  \/ \E e \in EngineErrors : EngineFails(1, e)

InitReceipt == Init /\ transferMaxFee = Undefined /\ kind # "legacy"

SpecReceipt == InitReceipt /\ [][NextReceipt]_vars

\* two sends on one account whose awaits interleave
NextSends ==
  \E p \in 1 .. 2 :
    \/ \E o \in SendOps, a \in OneArgEach : Start(p, o, NoConfig, a)
    \/ GetSafe4337Pack(p)
    \/ InitDone(p)
    \/ ProtocolKitGetAddress(p)
    \/ CreateQuoteOperation(p, UserOp(1, 2, 3, 4, 5, 1))
    \/ GetTokenExchangeRate(p, Wad)
    \/ QuoteReturn(p)
    \/ CreateSendOperation(p, 120000)
    \/ SignSafeOperation(p)
    \/ \E h \in Hashes : ExecuteTransaction(p, h)
    \/ EngineFails(p, "EngineError")

InitSends == InitConc /\ kind # "readonly"

SpecSends == InitSends /\ [][NextSends]_vars

\* user operations priced, at rate 1, at a fee whose approval
\* ceil(fee * 1.2) is the largest safe integer
MaxApprovalOps ==
  {UserOp(f, 0, 0, 0, 0, 1) :
     f \in {g \in 1 .. MAX_SAFE_INTEGER : AmountToApprove(g) = MAX_SAFE_INTEGER}}

\* the operations over every argument: calls, lists of calls, transfers
NextCalls ==
  Step(1, AllOps, Configs, {UserOp(1, 2, 3, 4, 5, 1)} \cup MaxApprovalOps, {Wad},
       {"EngineError"}, Args, Times)

InitCalls == Init /\ provider /\ ownerAddress = 1

SpecCalls == InitCalls /\ [][NextCalls]_vars

\* approvals asked of an owned account, and the chain in between
NextApprove ==
  \/ \E t \in ApprovedTokens, sp \in Spenders, m \in Amounts : Approve(t, sp, m)
  \/ ApprovalIncluded
  \/ \E t \in ApprovedTokens, sp \in Spenders : SpenderSpends(t, sp)

InitApprove ==
  Init /\ kind = "owned" /\ provider /\ transferMaxFee = Undefined /\ ownerAddress = 1

SpecApprove == InitApprove /\ [][NextApprove]_vars

\* calls with a config override and calls without one, awaited one after the
\* other on the same handle, its downgrade, and the calls on a wallet manager
ConfigOverride == [given |-> TRUE, token |-> OverrideToken, maxFee |-> Undefined]

NextConfig ==
  \/ /\ inv[2].status # "running"
     /\ \E o \in PipelineOps, a \in OneArgEach : Start(1, o, ConfigOverride, a)
  \/ /\ inv[1].status # "running"
     /\ \E o \in PipelineOps, a \in OneArgEach : Start(2, o, NoConfig, a)
  \/ \E p \in 1 .. 2 :
       \/ GetSafe4337Pack(p)
       \/ InitDone(p)
       \/ ProtocolKitGetAddress(p)
       \/ CreateQuoteOperation(p, UserOp(1, 2, 3, 4, 5, 1))
       \/ GetTokenExchangeRate(p, Wad)
       \/ QuoteReturn(p)
       \/ CreateSendOperation(p, 120000)
       \/ SignSafeOperation(p)
       \/ ExecuteTransaction(p, 1)
  \/ ToReadOnlyAccount
  \/ GetAccount(Undefined)
  \/ GetFeeRates(1)

InitConfig == Init /\ provider /\ ownerAddress = 1 /\ kind # "readonly"

SpecConfig == InitConfig /\ [][NextConfig]_vars

\* the calls on the wallet manager
NextManager ==
  \/ \E path \in Paths : GetAccountByPath(path)
  \/ \E i \in Indexes \cup {Undefined} : GetAccount(i)
  \/ \E m \in FeeDatas : GetFeeRates(m)

InitManager ==
  Init /\ kind = "owned" /\ transferMaxFee = Undefined /\ ownerAddress = 1

SpecManager == InitManager /\ [][NextManager]_vars

\* ------------------------------------------------------------------------
\* Properties
\* ------------------------------------------------------------------------

SendLabels == {"s_pack", "s_addr_pack", "s_addr", "s_create", "s_sign", "s_exec"}

\* the invocation has entered the send routine
InSendPhase(p) ==
  \/ inv[p].pc \in SendLabels
  \/ inv[p].ret \in SendLabels
  \/ inv[p].calls \cap SendLabels # {}
  \/ inv[p].sendOp # NoOperation
  \/ inv[p].signed
  \/ inv[p].submitted

\* C1: the fee in the result of sendTransaction and of transfer is the fee
\* that the quote routine of the same invocation returned; no other fee
\* value is ever returned.
C1_ResultFeeIsQuoteFee ==
  \A p \in Procs :
    inv[p].result.fee # Undefined =>
      inv[p].quoted /\ inv[p].result.fee = inv[p].fee

C1_Witness ==
  \E p \in Procs :
    /\ inv[p].op \in SendOps
    /\ inv[p].status = "ok"
    /\ inv[p].result.fee = inv[p].fee
    /\ inv[p].fee > 0
    /\ inv[p].sendOp.approve # inv[p].fee

\* C2: every operation that sendTransaction or transfer assembles for
\* submission carries the approval amount ceil(fee * 1.2), fee being the
\* quote computed earlier in the same invocation.
C2_ApprovalIsCeilOfScaledFee ==
  \A p \in Procs :
    inv[p].sendOp # NoOperation =>
      inv[p].sendOp.approve = CeilDiv(ToleranceNum * inv[p].fee, ToleranceDen)

\* C3: no operation is assembled, signed or submitted whose approval amount
\* is smaller than the fee of the same invocation; the approval is strictly
\* greater when the fee is positive.
C3_ApprovalCoversFee ==
  \A p \in Procs :
    inv[p].sendOp # NoOperation =>
      /\ inv[p].sendOp.approve >= inv[p].fee
      /\ inv[p].fee > 0 => inv[p].sendOp.approve > inv[p].fee

C3_Witness ==
  \E p \in Procs :
    /\ inv[p].submitted
    /\ inv[p].signed
    /\ inv[p].fee > 0
    /\ inv[p].sendOp.approve > inv[p].fee

\* C4: the quote is ceil(nativeCost * exchangeRate / 10^18) and is never
\* smaller than the exact value nativeCost * exchangeRate / 10^18, on the
\* read-only and on the owned account.
C4_QuoteIsCeilOfExactCost ==
  \A p \in Procs :
    inv[p].quoted =>
      /\ inv[p].fee = CeilDiv(inv[p].gasCost * inv[p].rate, Wad)
      /\ inv[p].fee * Wad >= inv[p].gasCost * inv[p].rate

\* C5: the native cost the quote is computed from is the sum of the five
\* gas-limit fields times maxFeePerGas of the operation assembled for that
\* quote.
C5_NativeCostIsGasSumTimesMaxFee ==
  \A p \in Procs :
    LET u == inv[p].uo
        native == (u.callGasLimit + u.verificationGasLimit + u.preVerificationGas
                     + u.paymasterVerificationGasLimit + u.paymasterPostOpGasLimit)
                    * u.maxFeePerGas
    IN  /\ inv[p].quoteOp # NoOperation => inv[p].gasCost = native
        /\ inv[p].quoted => inv[p].fee = QuoteFee(kind, native, inv[p].rate)

C5_Witness ==
  \E p \in Procs :
    /\ inv[p].quoted
    /\ inv[p].uo = UserOp(1, 1, 1, 1, 1, 171)
    /\ inv[p].gasCost = 855
    /\ inv[p].rate = Wad

\* C6: a transfer whose quote is greater than or equal to the fee ceiling in
\* force fails with the fee-ceiling error; no operation is assembled for
\* submission, nothing is signed and nothing is submitted.
C6_CeilingStopsTransfer ==
  \A p \in Procs :
    LET F == MaxFeeOf(inv[p].cfg) IN
      (inv[p].op = "transfer" /\ inv[p].quoted /\ F # Undefined /\ inv[p].fee >= F) =>
        /\ inv[p].pc = "q_done" \/ (inv[p].status = "error" /\ inv[p].err = "ExceededMaxFee")
        /\ ~InSendPhase(p)

C6_Witness ==
  \E p \in Procs :
    /\ inv[p].op = "transfer"
    /\ inv[p].status = "error"
    /\ inv[p].err = "ExceededMaxFee"
    /\ inv[p].fee = MaxFeeOf(inv[p].cfg)
    /\ inv[p].calls \cap SendLabels = {}

\* C7: the send routine (assembly, signing, submission) runs only after the
\* quote of the same invocation has been returned and, for transfer, after
\* the ceiling check has passed; an invocation whose quote failed never
\* signs or submits.
C7_SendOnlyAfterQuote ==
  \A p \in Procs :
    LET F == MaxFeeOf(inv[p].cfg) IN
      InSendPhase(p) =>
        /\ inv[p].op \in SendOps
        /\ inv[p].quoted
        /\ inv[p].quoteOp # NoOperation
        /\ inv[p].op = "transfer" => (F = Undefined \/ inv[p].fee < F)

C7_Witness ==
  \E p \in Procs :
    /\ inv[p].op = "transfer"
    /\ MaxFeeOf(inv[p].cfg) # Undefined
    /\ inv[p].quoted
    /\ inv[p].signed
    /\ inv[p].submitted

\* C8: quoteSendTransaction and quoteTransfer, whether they succeed or fail,
\* use only engine construction, address resolution, operation assembly and
\* the exchange-rate lookup; they never sign and never submit.
C8_QuoteNeverSignsOrSubmits ==
  \A p \in Procs :
    inv[p].op \in QuoteOps =>
      /\ {Capability(l) : l \in inv[p].calls} \subseteq
           {"init", "getAddress", "createTransaction", "getTokenExchangeRate"}
      /\ ~InSendPhase(p)

C8_Witness ==
  \E p \in Procs :
    /\ kind = "owned"
    /\ inv[p].op = "quoteTransfer"
    /\ inv[p].status = "ok"
    /\ inv[p].calls = {"init", "q_addr", "q_create", "q_rate"}

\* C9: the engine of one handle is constructed at most once, also when the
\* first uses of the handle interleave.
C9_EngineConstructedAtMostOnce == initCount <= 1

\* C10: once an engine has been stored on the handle, it is never cleared
\* or replaced by another instance.
C10_CachedEngineNeverReplaced ==
  [][safe4337Pack # 0 => safe4337Pack' = safe4337Pack]_vars

QuoteLabels == {"q_pack", "q_addr_pack", "q_addr", "q_create", "q_rate_pack", "q_rate", "q_done"}

\* C11: within one sendTransaction or transfer invocation the quote phase and
\* the send phase make their engine calls on one and the same engine
\* instance, and the quote phase is over when the send phase starts; also
\* when other operations run on the handle at the same time.
C11_SameEngineAcrossPhases ==
  \A p \in Procs :
    (inv[p].op \in SendOps /\ InSendPhase(p)) =>
      /\ inv[p].quoted
      /\ inv[p].pc \notin QuoteLabels
      /\ inv[p].ret \notin QuoteLabels
      /\ Cardinality({c[2] : c \in inv[p].on}) <= 1

C13_OtherFailuresPropagateUnchanged ==
  \A p \in Procs :
    inv[p].raised \notin {"none", "AA50"} =>
      /\ inv[p].status = "error"
      /\ inv[p].err = inv[p].raised
      /\ ~inv[p].submitted

C13_Witness ==
  \E p \in Procs :
    /\ inv[p].raised = "EngineError"
    /\ inv[p].at = "s_sign"
    /\ inv[p].err = "EngineError"
    /\ inv[p].quoted

\* C14: quoteSendTransaction, quoteTransfer, sendTransaction and transfer on
\* an account without a provider fail at once with the missing-provider
\* error: the engine is not constructed and no engine call is issued.
C14_NoProviderFailsBeforeEngine ==
  \A p \in Procs :
    (inv[p].op \in PipelineOps /\ inv[p].cfg = NoConfig /\ ~provider) =>
      /\ inv[p].calls = {}
      /\ inv[p].pc \notin {"init", "q_addr", "q_create", "q_rate"}
      /\ inv[p].status # "running" =>
           (inv[p].status = "error" /\ inv[p].err = "NoProvider")

\* C15: a getAccountByPath call for a path that already has an account
\* returns that very instance and constructs nothing, and each call for a
\* path without one constructs exactly one account; so the manager has
\* constructed one account per path that was ever asked for.
C15_SamePathSameInstance ==
  [][/\ last'.op = "getAccountByPath" =>
          /\ last'.account # 0
          /\ accounts[last'.path] # 0 =>
               /\ last'.account = accounts[last'.path]
               /\ created' = created
               /\ accounts' = accounts
          /\ accounts[last'.path] = 0 => created' = created + 1
     /\ created' = Cardinality({q \in Paths : accounts'[q] # 0})]_vars

C15_Witness ==
  /\ last.op = "getAccountByPath"
  /\ last.path = "1'/0/0"
  /\ last.hit
  /\ last.account = accounts["1'/0/0"]
  /\ created >= 2

\* C16: getAccount(i) returns the instance stored under the path "0'/0/i",
\* the one getAccountByPath("0'/0/i") returns, whichever of the two was
\* called first; getAccount() is getAccount(0).
C16_GetAccountIsGetAccountByPath ==
  [][/\ last'.op = "getAccount" =>
          LET i    == IF last'.index = Undefined THEN 0 ELSE last'.index
              path == "0'/0/" \o ToString(i)
          IN  /\ last'.account # 0
              /\ last'.account = accounts'[path]
              /\ accounts[path] # 0 => last'.account = accounts[path]
              /\ \A q \in Paths \ {path} : accounts'[q] = accounts[q]
     /\ (last'.op = "getAccountByPath" /\ builtBy[last'.path] = "getAccount") =>
          last'.account = accounts[last'.path]]_vars

C16_Witness ==
  /\ last.op = "getAccount"
  /\ last.index = Undefined
  /\ last.hit
  /\ builtBy["0'/0/0"] = "getAccountByPath"
  /\ last.account = accounts["0'/0/0"]
  /\ accounts["0'/0/1"] \notin {0, last.account}

\* C17: getFeeRates on a manager without a provider fails before the chain
\* is queried; with or without a provider it constructs no account and
\* leaves the account cache as it was.
C17_GetFeeRatesNeedsProviderAndTouchesNoAccount ==
  [][last'.op = "getFeeRates" =>
       /\ accounts' = accounts
       /\ created' = created
       /\ ~provider => (last'.err = "NoProvider" /\ ~last'.queried)]_vars

C17_Witness ==
  /\ ~provider
  /\ last.op = "getFeeRates"
  /\ last.err = "NoProvider"
  /\ ~last.queried
  /\ created >= 1

\* C18: no operation on a read-only handle, constructed from an address or
\* returned by toReadOnlyAccount, signs or submits, and every engine of such
\* a handle is constructed without a signer.
C18_ReadOnlyNeverSigns ==
  /\ kind = "readonly" =>
       /\ \A p \in Procs :
            /\ ~InSendPhase(p)
            /\ inv[p].op \notin SendOps
            /\ {Capability(l) : l \in inv[p].calls} \cap
                 {"signSafeOperation", "executeTransaction"} = {}
       /\ \A i \in 1 .. Len(engines) : ~engines[i].signer
  /\ copy.engine # NoEngine => ~copy.engine.signer

C18_Witness ==
  /\ kind = "readonly"
  /\ Len(engines) = 1
  /\ \E p \in Procs :
       /\ inv[p].op = "quoteTransfer"
       /\ inv[p].status = "ok"
       /\ inv[p].pack = 1

\* C19: the handle returned by toReadOnlyAccount resolves to the address the
\* owned account resolves to, whether the owned account had its engine
\* before the downgrade or not.
C19_CopyResolvesToSameAddress ==
  \A p \in Procs :
    (kind = "owned" /\ copy.address # Undefined /\ inv[p].address # Undefined) =>
      copy.address = inv[p].address

C19_Witness ==
  \E p \in Procs :
    /\ kind = "owned"
    /\ copy.made
    /\ ~copy.early
    /\ copy.address # Undefined
    /\ inv[p].op = "getAddress"
    /\ inv[p].status = "ok"
    /\ inv[p].address = copy.address

\* C22: a read-only account constructed with address A reports A from
\* getAddress and reads the balance of A in getBalance.
C22_ReadOnlyReportsConstructorAddress ==
  \A p \in Procs :
    (/\ kind = "readonly"
     /\ inv[p].op \in {"getAddress", "getBalance"}
     /\ inv[p].address # Undefined)
      => inv[p].address = ownerAddress

\* C23: transfer and quoteTransfer turn {token, recipient, amount} into
\* exactly one call with to = token, value = 0 and data = the encoded
\* transfer(recipient, amount); that call is the one the quote prices and the
\* one the assembled, signed and submitted operation contains.
C23_TransferIsOneTokenCall ==
  \A p \in Procs :
    inv[p].op \in {"transfer", "quoteTransfer"} =>
      LET o == inv[p].arg.options
          call == [to |-> o.token, value |-> 0,
                   data |-> [fn |-> "transfer", args |-> <<o.recipient, o.amount>>],
                   array |-> <<>>]
      IN
        /\ inv[p].quoteOp # NoOperation =>
             CallsOf(inv[p].quoteOp.transactions) = <<call>>
        /\ inv[p].sendOp # NoOperation =>
             CallsOf(inv[p].sendOp.transactions) = <<call>>
        /\ inv[p].submittedOp # NoOperation =>
             CallsOf(inv[p].submittedOp.transactions) = <<call>>

C23_Witness ==
  \E p \in Procs :
    /\ inv[p].op = "transfer"
    /\ inv[p].status = "ok"
    /\ inv[p].arg.options = [token |-> 3, recipient |-> 5, amount |-> 7]
    /\ Len(inv[p].quoteOp.transactions) = 1
    /\ inv[p].quoteOp.transactions[1].call.to = 3
    /\ inv[p].quoteOp.transactions[1].call.value = 0
    /\ inv[p].quoteOp.transactions[1].call.data = [fn |-> "transfer", args |-> <<5, 7>>]
    /\ inv[p].submittedOp.transactions = inv[p].quoteOp.transactions

\* C24: sendTransaction given a list of n calls, every engine call
\* succeeding, ends with one operation holding the n calls in the given
\* order, submitted exactly once.
C24_ListIsOneOperationSubmittedOnce ==
  \A p \in Procs :
    (/\ inv[p].op = "sendTransaction"
     /\ inv[p].arg.tx.list
     /\ inv[p].cfg = NoConfig
     /\ inv[p].status \in {"ok", "error"}
     /\ inv[p].raised = "none")
      => /\ inv[p].status = "ok"
         /\ inv[p].submits = 1
         /\ CallsOf(inv[p].submittedOp.transactions) = inv[p].arg.tx.calls

\* C25: a nonzero approval of the flagged stablecoin asked for while the
\* spender's current allowance is nonzero fails with the allowance-reset
\* error and no approval call is constructed; asked for while the allowance
\* is zero it issues exactly one approval call, approve(spender, amount) on
\* the token.
C25_AllowanceResetGuard ==
  (approval.token = FlaggedToken /\ approval.amount > 0) =>
    /\ approval.seen > 0 =>
         /\ approval.err = "AllowanceReset"
         /\ approval.calls = <<>>
         /\ ~approval.pending
    /\ approval.seen = 0 =>
         /\ approval.err = "none"
         /\ approval.calls =
              <<[to |-> approval.token, value |-> 0,
                 data |-> [fn |-> "approve",
                           args |-> <<approval.spender, approval.amount>>],
                 array |-> <<>>]>>

C25_Witness ==
  /\ approval.token = FlaggedToken
  /\ approval.amount = 2
  /\ approval.seen = 1
  /\ allowance[approval.token, approval.spender] = 1
  /\ approval.err = "AllowanceReset"
  /\ approval.calls = <<>>

\* C26: every operation assembled for submission carries the deadline
\* floor(now / 1000) + 120 seconds of the time it was assembled at, and an
\* operation assembled for a quote carries none.
C26_SendDeadlineIsTwoMinutes ==
  \A p \in Procs :
    /\ inv[p].sendOp # NoOperation =>
         /\ inv[p].now # Undefined
         /\ inv[p].sendOp.validUntil = (inv[p].now \div 1000) + 120
    /\ inv[p].submittedOp # NoOperation =>
         inv[p].submittedOp.validUntil = (inv[p].now \div 1000) + 120
    /\ inv[p].quoteOp # NoOperation => inv[p].quoteOp.validUntil = Undefined

C26_Witness ==
  \E p \in Procs :
    /\ inv[p].op \in SendOps
    /\ inv[p].submitted
    /\ inv[p].now = 119999
    /\ inv[p].submittedOp.validUntil = 239
    /\ inv[p].quoteOp.validUntil = Undefined

\* C27: within one sendTransaction or transfer, the operation assembled,
\* signed and submitted has the call list and the paymaster token of the
\* operation the quote was computed from, whatever the config override.
C27_SendUsesQuoteCallsAndToken ==
  \A p \in Procs :
    /\ inv[p].sendOp # NoOperation =>
         /\ inv[p].quoteOp # NoOperation
         /\ inv[p].sendOp.token = inv[p].quoteOp.token
         /\ CallsOf(inv[p].sendOp.transactions) = CallsOf(inv[p].quoteOp.transactions)
    /\ inv[p].signedOp # NoOperation =>
         /\ inv[p].signedOp.token = inv[p].quoteOp.token
         /\ CallsOf(inv[p].signedOp.transactions) = CallsOf(inv[p].quoteOp.transactions)
    /\ inv[p].submittedOp # NoOperation =>
         /\ inv[p].submittedOp.token = inv[p].quoteOp.token
         /\ CallsOf(inv[p].submittedOp.transactions) = CallsOf(inv[p].quoteOp.transactions)

C27_Witness ==
  \E p \in Procs :
    /\ inv[p].op = "sendTransaction"
    /\ inv[p].cfg = [given |-> TRUE, token |-> OverrideToken, maxFee |-> Undefined]
    /\ inv[p].submitted
    /\ inv[p].quoteOp.token = OverrideToken
    /\ inv[p].submittedOp.token = OverrideToken
    /\ Len(inv[p].submittedOp.transactions) = 1

\* C28: a transfer on an account configured with transferMaxFee = F whose
\* override names only a paymasterToken stops at the ceiling: with
\* quote >= F it fails with the fee-ceiling error and never enters the send
\* routine.
C28_ConfiguredCeilingSurvivesTokenOverride ==
  \A p \in Procs :
    (/\ inv[p].op = "transfer"
     /\ transferMaxFee # Undefined
     /\ inv[p].cfg = [given |-> TRUE, token |-> OverrideToken, maxFee |-> Undefined]
     /\ inv[p].quoted
     /\ inv[p].fee >= transferMaxFee)
      => /\ inv[p].pc = "q_done" \/ (inv[p].status = "error" /\ inv[p].err = "ExceededMaxFee")
         /\ ~InSendPhase(p)

C30_SubmitsOnceNoRetry ==
  \A p \in Procs :
    /\ inv[p].submits <= 1
    /\ (inv[p].op \in SendOps /\ inv[p].status = "ok") => inv[p].submits = 1
    /\ inv[p].submits = 1 => inv[p].status \in {"ok", "error"}
    /\ inv[p].raised # "none" => inv[p].status = "error"
    /\ inv[p].at \in {"s_create", "s_sign"} => inv[p].submits = 0
    /\ {Capability(l) : l \in inv[p].calls} \subseteq
         {"init", "getAddress", "createTransaction", "getTokenExchangeRate",
          "signSafeOperation", "executeTransaction"}

C30_Witness ==
  \E p \in Procs :
    /\ inv[p].op \in SendOps
    /\ inv[p].status = "error"
    /\ inv[p].at = "s_exec"
    /\ inv[p].submits = 1
    /\ inv[p].signed

\* C31: two sendTransaction / transfer invocations on one owned account are
\* not serialized: a send can be started while another invocation is in
\* flight, a running invocation can enter its send routine, sign and
\* submit whatever the other one is doing, and so both can have
\* quoted and assembled their operation before either has submitted.
C31_SendsNotSerialized ==
  \A p \in 1 .. 2 :
    /\ inv[p].status # "running" =>
         ENABLED Start(p, "sendTransaction", NoConfig,
                       [tx |-> Single(Call(21, 1, NoData)), options |-> NoOptions,
                        hash |-> Undefined])
    /\ (inv[p].status = "running" /\ inv[p].pc = "s_pack") =>
         ENABLED GetSafe4337Pack(p)
    /\ (inv[p].status = "running" /\ inv[p].pc = "s_sign") =>
         ENABLED SignSafeOperation(p)
    /\ (inv[p].status = "running" /\ inv[p].pc = "s_exec") =>
         ENABLED ExecuteTransaction(p, 1)

C31_Witness ==
  /\ \A p \in 1 .. 2 :
       /\ inv[p].op \in SendOps
       /\ inv[p].status = "running"
       /\ inv[p].quoted
       /\ inv[p].sendOp # NoOperation
       /\ inv[p].submits = 0
  /\ inv[1].pc = "s_sign"
  /\ inv[2].pc = "s_exec"

\* C32: sendTransaction is never stopped by the transfer fee ceiling: with
\* transferMaxFee = F configured and a quote >= F, and no engine call
\* rejected, it never fails with the fee-ceiling error and ends having
\* assembled, signed and submitted its operation.
C32_SendTransactionIgnoresCeiling ==
  \A p \in Procs :
    (/\ inv[p].op = "sendTransaction"
     /\ inv[p].cfg = NoConfig
     /\ transferMaxFee # Undefined
     /\ inv[p].quoted
     /\ inv[p].fee >= transferMaxFee)
      => /\ inv[p].err # "ExceededMaxFee"
         /\ (inv[p].status \in {"ok", "error"} /\ inv[p].raised = "none") =>
              /\ inv[p].status = "ok"
              /\ inv[p].sendOp # NoOperation
              /\ inv[p].signed
              /\ inv[p].submitted

\* C33: getTransactionReceipt(hash) returns null without asking the chain
\* node for a receipt whenever the bundler reports no settlement transaction
\* hash; otherwise it asks the node once, for the settlement transaction
\* hash and not for the operation hash, and returns the node's answer.
C33_ReceiptBySettlementHash ==
  \A p \in Procs :
    (inv[p].op = "getTransactionReceipt" /\ "r_lookup" \in inv[p].calls
       /\ inv[p].raised = "none") =>
      /\ inv[p].reported \in {Undefined, Null} =>
           /\ inv[p].status = "ok"
           /\ inv[p].receipt = Receipt(Null)
           /\ inv[p].looked = {}
      /\ inv[p].reported \in TxHashes =>
           /\ inv[p].looked \subseteq {inv[p].reported}
           /\ inv[p].status = "ok" =>
                /\ inv[p].looked = {inv[p].reported}
                /\ inv[p].receipt \in {Receipt(Null), Receipt(inv[p].reported)}
           /\ inv[p].status = "running" => inv[p].pc = "r_receipt"

C33_Witness ==
  \E p \in Procs :
    /\ inv[p].op = "getTransactionReceipt"
    /\ inv[p].status = "ok"
    /\ inv[p].arg.hash = 1
    /\ inv[p].reported = 102
    /\ inv[p].looked = {102}
    /\ inv[p].receipt = Receipt(102)


\* C34: every engine an owned account constructs is given the address of
\* the account's own keyed account as its owner and that keyed account as
\* its signer, and no operation changes the keyed account of the account.
C34_EngineOwnedByKeyedAccount ==
  [][/\ ownerAddress' = ownerAddress
     /\ kind' = kind
     /\ kind \in {"owned", "legacy"} =>
          \A i \in 1 .. Len(engines') :
            /\ engines'[i].owner = ownerAddress
            /\ engines'[i].signer]_vars

C34_Witness ==
  /\ kind = "owned"
  /\ ownerAddress = 2
  /\ Len(engines) = 1
  /\ engines[1] = [signer |-> TRUE, owner |-> 2]
  /\ \E p \in Procs :
       /\ inv[p].op = "quoteSendTransaction"
       /\ inv[p].status = "ok"
       /\ inv[p].pack = 1


\* C35: no operation changes the stored configuration: the provider and the
\* fee ceiling stay as constructed, a call without a config argument is
\* priced in the configured paymaster token and held to the configured
\* ceiling whatever override another call was given, and every account a
\* wallet manager creates holds the manager's own configuration object, for
\* good.
C35_StoredConfigNeverModified ==
  [][/\ provider' = provider
     /\ transferMaxFee' = transferMaxFee
     /\ \A q \in Paths :
          /\ accounts'[q] # 0 => heldConfig'[q] = ManagerConfig
          /\ heldConfig[q] # 0 => heldConfig'[q] = heldConfig[q]
     /\ \A p \in Procs :
          inv'[p].cfg = NoConfig =>
            /\ inv'[p].quoteOp # NoOperation => inv'[p].quoteOp.token = ConfigToken
            /\ inv'[p].sendOp # NoOperation => inv'[p].sendOp.token = ConfigToken
            /\ (inv'[p].op = "transfer" /\ inv'[p].quoted /\ inv'[p].pc \notin {"q_rate", "q_done"}) =>
                 (inv'[p].err = "ExceededMaxFee"
                    <=> ExceedsTransferMaxFee(inv'[p].fee, transferMaxFee))]_vars

C35_Witness ==
  /\ kind = "legacy"
  /\ transferMaxFee = 15
  /\ inv[1].op = "transfer"
  /\ inv[1].cfg = ConfigOverride
  /\ inv[1].status = "ok"
  /\ inv[1].sendOp.token = OverrideToken
  /\ inv[2].op = "transfer"
  /\ inv[2].cfg = NoConfig
  /\ inv[2].quoteOp.token = ConfigToken
  /\ inv[2].err = "ExceededMaxFee"
  /\ copy.made = FALSE
  /\ accounts[PathOfIndex(0)] = 1
  /\ heldConfig[PathOfIndex(0)] = ManagerConfig
  /\ last.op = "getFeeRates"


\* C36: once a path has an account in the wallet manager, no later
\* getAccount, getAccountByPath or getFeeRates call replaces or removes it,
\* and two different paths never map to the same account instance.
C36_CachedAccountKeptAndUnshared ==
  [][/\ \A q \in Paths : accounts[q] # 0 => accounts'[q] = accounts[q]
     /\ \A q1, q2 \in Paths :
          (q1 # q2 /\ accounts'[q1] # 0) => accounts'[q1] # accounts'[q2]]_vars

C36_Witness ==
  /\ accounts[PathOfIndex(0)] = 2
  /\ accounts[PathOfIndex(1)] = 1
  /\ created = 3
  /\ last.op = "getAccount"
  /\ last.index = 1
  /\ last.hit
  /\ last.account = 1

====
